---- MODULE Spec2Model ----
(***************************************************************************)
(* Model of lyricpass.py: the concurrent fetch pipeline of scrape_lyrics   *)
(* (producer, get_song_lyrics workers and lyric_writer run as tasks of a   *)
(* multiprocessing.Pool and coordinated through two manager queues), the   *)
(* artist loop and read-back of main, and the phrase extractor             *)
(* make_phrases.                                                           *)
(***************************************************************************)
EXTENDS Integers, Sequences, FiniteSets, TLC

\* ------------------------------------------------------------------ bounds
MaxProcs == 3        \* largest os.cpu_count() explored
MaxWorkers == 2      \* largest --max-concurrent-dl explored
MaxUrls == 2         \* most song URLs build_urls returns in a program run
MaxArtists == 2      \* most artists parse_artists returns
MaxLineLen == 5      \* longest raw line given to make_phrases
MaxPhraseMax == 4    \* largest --max explored

\* --------------------------------------------------------------- constants
QUEUE_SENTINEL == 0

VARIABLES
    processes,          \* size of multiprocessing.Pool(): os.cpu_count()
    max_concurrent_dl,  \* args.max_concurrent_dl
    artists,            \* number of artists parse_artists returned
    artist,             \* index of the artist main's for loop is at
    mainpc,             \* position of the main process
    url_list,           \* url_list of the running scrape_lyrics call
    input_queue,        \* items of manager.Queue(int(max_concurrent_dl*1.5))
    unfinished_tasks,   \* input_queue's count of items not yet task_done
    lyrics_queue,       \* items of the unbounded manager.Queue()
    dispatched,         \* number of pool tasks handed to a pool process
    prod,               \* the producer task
    writer,             \* the lyric_writer task
    workers,            \* the get_song_lyrics tasks, 1..max_concurrent_dl
    lyric_file,         \* the raw-lyrics file: exists, lines
    pass_file,          \* the wordlist file: exists, lines
    fetched,            \* history: outcome of every fetch made so far
    taken,              \* history: how often each URL of url_list was taken
    produced,           \* history: the items the producer has put, in order
    songs,              \* history: number of URLs build_urls has returned
    line,               \* make_phrases: the line argument
    args,               \* make_phrases: args.min, args.max
    final_lines,        \* make_phrases: the list returned
    phpc                \* make_phrases: not yet called / returned

pipevars == <<processes, max_concurrent_dl, artists, artist, mainpc, url_list,
              input_queue, unfinished_tasks, lyrics_queue, dispatched, prod,
              writer, workers, lyric_file, pass_file, fetched, taken, produced,
              songs>>
histvars == <<taken, produced, songs>>
phvars == <<line, args, final_lines, phpc>>
vars == <<processes, max_concurrent_dl, artists, artist, mainpc, url_list,
          input_queue, unfinished_tasks, lyrics_queue, dispatched, prod,
          writer, workers, lyric_file, pass_file, fetched, taken, produced, songs,
          line, args, final_lines, phpc>>

\* ============================================================ make_phrases
\* A string is a sequence of characters; a character is a one-token string.
\* "eacute" stands for U+00E9 and "acute" for the combining mark U+0301.
Alphabet == {"a", "B", " ", "-", "!", "eacute"}

RECURSIVE Flatten(_)
Flatten(ss) == IF ss = <<>> THEN <<>> ELSE Head(ss) \o Flatten(Tail(ss))

\* str.lower()
lower(s) ==
    [i \in 1..Len(s) |-> CASE s[i] = "A" -> "a" [] s[i] = "B" -> "b" [] OTHER -> s[i]]

\* re.sub(r"[-_]", " ", ...)
sub_dashes(s) == [i \in 1..Len(s) |-> IF s[i] \in {"-", "_"} THEN " " ELSE s[i]]

\* unicodedata.normalize("NFKD", c), unicodedata.combining(c)
nfkd(c) == IF c = "eacute" THEN <<"e", "acute">> ELSE <<c>>
combining(c) == c = "acute"

remove_accents(input_str) ==
    LET nfkd_form == Flatten([i \in 1..Len(input_str) |-> nfkd(input_str[i])])
    IN  SelectSeq(nfkd_form, LAMBDA c : ~combining(c))

\* allowed_chars = re.compile("[^a-zA-Z0-9 '&]"); allowed_chars.sub("", ...)
allowed(c) == c \in {"a", "b", "e", "A", "B", "E", "0", "1", " ", "'", "&"}
allowed_chars_sub(s) == SelectSeq(s, allowed)

\* \s of the re module
whitespace(c) == c \in {" ", "\n", "\r", "\t"}

RECURSIVE SpaceRun(_)
SpaceRun(s) == IF s # <<>> /\ whitespace(Head(s)) THEN 1 + SpaceRun(Tail(s)) ELSE 0

\* re.sub(r"\s\s+", " ", line)
RECURSIVE shrink_spaces(_)
shrink_spaces(s) ==
    IF s = <<>> THEN <<>>
    ELSE IF SpaceRun(s) >= 2
         THEN <<" ">> \o shrink_spaces(SubSeq(s, SpaceRun(s) + 1, Len(s)))
         ELSE <<Head(s)>> \o shrink_spaces(Tail(s))

\* line 101 and line 104
normalize(l) ==
    shrink_spaces(allowed_chars_sub(remove_accents(sub_dashes(lower(l)))))

\* ---- textwrap.wrap(item, width, break_long_words=False)
\* TextWrapper._split: maximal runs of whitespace and of non-whitespace
RECURSIVE WordRun(_)
WordRun(s) == IF s # <<>> /\ ~whitespace(Head(s)) THEN 1 + WordRun(Tail(s)) ELSE 0

RECURSIVE split_chunks(_)
split_chunks(s) ==
    IF s = <<>> THEN <<>>
    ELSE LET n == IF whitespace(Head(s)) THEN SpaceRun(s) ELSE WordRun(s)
         IN  <<SubSeq(s, 1, n)>> \o split_chunks(SubSeq(s, n + 1, Len(s)))

blank(chunk) == \A i \in 1..Len(chunk) : whitespace(chunk[i])

\* number of leading chunks that fit on a line with cur_len characters
RECURSIVE Fit(_, _, _)
Fit(chunks, cur_len, width) ==
    IF chunks # <<>> /\ cur_len + Len(Head(chunks)) <= width
    THEN 1 + Fit(Tail(chunks), cur_len + Len(Head(chunks)), width)
    ELSE 0

\* TextWrapper._wrap_chunks with drop_whitespace=True, break_long_words=False
RECURSIVE wrap_chunks(_, _, _)
wrap_chunks(chunks, lines, width) ==
    IF chunks = <<>> THEN lines
    ELSE LET c0 == IF blank(Head(chunks)) /\ lines # <<>> THEN Tail(chunks) ELSE chunks
             k == Fit(c0, 0, width)
             fitted == SubSeq(c0, 1, k)
             rest == SubSeq(c0, k + 1, Len(c0))
             long == rest # <<>> /\ Len(Head(rest)) > width /\ fitted = <<>>
             cur_line == IF long THEN <<Head(rest)>> ELSE fitted
             rest2 == IF long THEN Tail(rest) ELSE rest
             kept == IF cur_line # <<>> /\ blank(cur_line[Len(cur_line)])
                     THEN SubSeq(cur_line, 1, Len(cur_line) - 1) ELSE cur_line
         IN  wrap_chunks(rest2, IF kept # <<>> THEN Append(lines, Flatten(kept)) ELSE lines,
                         width)

wrap(text, width) ==
    LET munged == [i \in 1..Len(text) |-> IF whitespace(text[i]) THEN " " ELSE text[i]]
    IN  wrap_chunks(split_chunks(munged), <<>>, width)

\* make_phrases with ">=" for the ">" of line 128
make_phrases_ge(l, a) ==
    LET item == normalize(l)
        line_length == Len(item)
    IN  IF line_length < a.min THEN <<>>
        ELSE IF line_length >= a.max THEN wrap(item, a.max)
        ELSE <<item>>

\* make_phrases(line, args): clean_lines holds the one normalized line
make_phrases(l, a) ==
    LET item == normalize(l)
        line_length == Len(item)
    IN  IF line_length < a.min THEN <<>>
        ELSE IF line_length > a.max THEN wrap(item, a.max)
        ELSE <<item>>

\* all strings over Alphabet of length at most n
RECURSIVE Strings(_)
Strings(n) ==
    IF n = 0 THEN {<<>>}
    ELSE LET shorter == Strings(n - 1)
         IN  shorter \cup {Append(s, c) : s \in {t \in shorter : Len(t) = n - 1}, c \in Alphabet}

\* the values of --min and --max explored
MinMax == [min : 1..MaxPhraseMax, max : 1..MaxPhraseMax]
NoArgs == [min |-> 0, max |-> 0]

PhraseIdle == /\ line = <<>> /\ args = NoArgs /\ final_lines = <<>> /\ phpc = "idle"

\* ================================================================ pipeline
\* A URL is a positive number (10 * artist + position in the artist's list),
\* so no URL equals QUEUE_SENTINEL.  A lyric line carries the URL it was
\* fetched from as a ghost tag next to its text.
Url(a, k) == 10 * a + k
\* position of a URL in its artist's url_list
UrlIndex(u) == u % 10

\* the <pre> block of the lyric page of a URL, split at newlines (line 246):
\* the pages at odd positions hold an empty line, the others do not
Page(u) ==
    IF UrlIndex(u) % 2 = 1 THEN << <<"a", "-", "a">>, <<>>, <<"B">> >>
    ELSE << <<"a", "B">>, <<"B">> >>

Sentinel == [sentinel |-> TRUE, url |-> QUEUE_SENTINEL, lines |-> <<>>]
Batch(u, b) == [sentinel |-> FALSE, url |-> u, lines |-> b]

\* a work queue made with int(max_concurrent_dl * 2)
maxsize_double == 2 * max_concurrent_dl

\* manager.Queue(int(max_concurrent_dl * 1.5)), line 276
maxsize == (3 * max_concurrent_dl) \div 2
full == Len(input_queue) >= maxsize

\* Pool.map's default chunksize (divmod(len(iterable), len(pool) * 4))
chunksize ==
    LET q == max_concurrent_dl \div (processes * 4)
        extra == max_concurrent_dl % (processes * 4)
    IN  IF extra # 0 THEN q + 1 ELSE q
Workers == 1..max_concurrent_dl
chunk_of(w) == (w - 1) \div chunksize + 1
n_chunks == chunk_of(max_concurrent_dl)
\* pool tasks in submission order: 1 producer, 2 lyric_writer, 2 + k chunk k
n_tasks == 2 + n_chunks

WorkerLive(w) == workers[w].pc \in {"get", "sentinel", "fetch", "ack"}
ChunkLive(k) == \E w \in Workers : chunk_of(w) = k /\ WorkerLive(w)
\* pool processes that are executing a task
busy ==
    (IF prod.pc = "run" THEN 1 ELSE 0) + (IF writer.pc = "run" THEN 1 ELSE 0)
    + Cardinality({k \in 1..n_chunks : ChunkLive(k)})

NoFile == [exists |-> FALSE, lines |-> <<>>]
NoPipeline ==
    /\ url_list = <<>> /\ input_queue = <<>> /\ unfinished_tasks = 0
    /\ lyrics_queue = <<>> /\ dispatched = 0
    /\ prod = [pc |-> "none", i |-> 0]
    /\ writer = [pc |-> "none", finished |-> 0]
    /\ workers = [w \in Workers |-> [pc |-> "none", url |-> 0, raising |-> FALSE]]
    /\ taken = <<>> /\ produced = <<>>

\* the for loop of main, lines 309-317: next artist, or fall through
LoopAt(a) == IF a <= artists THEN "build" ELSE "readback"

Init ==
    /\ processes \in 1..MaxProcs
    /\ max_concurrent_dl \in 1..MaxWorkers
    /\ artists \in 1..MaxArtists
    /\ artist = 1
    /\ mainpc = LoopAt(1)
    /\ NoPipeline
    /\ lyric_file = NoFile
    /\ pass_file = NoFile
    /\ fetched = {}
    /\ songs = 0
    /\ PhraseIdle

\* ---- main, lines 309-315: build_urls found no song, the artist is skipped
BuildUrlsEmpty ==
    /\ mainpc = "build"
    /\ artist' = artist + 1
    /\ mainpc' = LoopAt(artist + 1)
    /\ UNCHANGED <<processes, max_concurrent_dl, artists, url_list, input_queue,
                   unfinished_tasks, lyrics_queue, dispatched, prod, writer,
                   workers, lyric_file, pass_file, fetched>>
    /\ UNCHANGED histvars
    /\ UNCHANGED phvars

\* ---- main line 311 and scrape_lyrics lines 274-284: the queues are made,
\* producer, lyric_writer and the get_song_lyrics tasks are submitted, and
\* the main process waits in pool.map
ScrapeLyrics ==
    /\ mainpc = "build"
    /\ \E m \in 1..(MaxUrls - songs) :
          /\ url_list' = [k \in 1..m |-> Url(artist, k)]
          /\ songs' = songs + m
    /\ input_queue' = <<>>
    /\ unfinished_tasks' = 0
    /\ lyrics_queue' = <<>>
    /\ dispatched' = 0
    /\ prod' = [pc |-> "queued", i |-> 0]
    /\ writer' = [pc |-> "queued", finished |-> 0]
    /\ workers' = [w \in Workers |-> [pc |-> "queued", url |-> 0, raising |-> FALSE]]
    /\ mainpc' = "map"
    /\ taken' = [k \in 1..Len(url_list') |-> 0]
    /\ produced' = <<>>
    /\ UNCHANGED <<processes, max_concurrent_dl, artists, artist, lyric_file,
                   pass_file, fetched>>
    /\ UNCHANGED phvars

\* ---- an idle pool process takes the next task, in submission order
StartTask ==
    /\ mainpc \in {"map", "qjoin", "pooljoin"}
    /\ dispatched < n_tasks
    /\ busy < processes
    /\ dispatched' = dispatched + 1
    /\ prod' = IF dispatched = 0 THEN [prod EXCEPT !.pc = "run"] ELSE prod
    /\ writer' = IF dispatched = 1 THEN [writer EXCEPT !.pc = "run"] ELSE writer
    /\ workers' = IF dispatched >= 2
                  THEN [workers EXCEPT ![(dispatched - 2) * chunksize + 1].pc = "get"]
                  ELSE workers
    /\ UNCHANGED <<processes, max_concurrent_dl, artists, artist, mainpc, url_list,
                   input_queue, unfinished_tasks, lyrics_queue, lyric_file,
                   pass_file, fetched>>
    /\ UNCHANGED histvars
    /\ UNCHANGED phvars

\* producer with range(n_consumers - 1) at line 260
ProducerPut_short ==
    /\ prod.pc = "run"
    /\ ~full
    /\ LET item == IF prod.i < Len(url_list) THEN url_list[prod.i + 1]
                   ELSE QUEUE_SENTINEL
       IN  /\ input_queue' = Append(input_queue, item)
           /\ produced' = Append(produced, item)
    /\ unfinished_tasks' = unfinished_tasks + 1
    /\ UNCHANGED <<taken, songs>>
    /\ prod' = [pc |-> IF prod.i + 1 >= Len(url_list) + max_concurrent_dl - 1
                       THEN "done" ELSE "run",
                i |-> prod.i + 1]
    /\ UNCHANGED <<processes, max_concurrent_dl, artists, artist, mainpc, url_list,
                   lyrics_queue, dispatched, writer, workers, lyric_file,
                   pass_file, fetched>>
    /\ UNCHANGED phvars

\* ---- producer, lines 253-264: wait while the queue is full, then put the
\* next URL, and after the last URL the sentinels, one per consumer
ProducerPut ==
    /\ prod.pc = "run"
    /\ ~full
    /\ LET item == IF prod.i < Len(url_list) THEN url_list[prod.i + 1]
                   ELSE QUEUE_SENTINEL
       IN  /\ input_queue' = Append(input_queue, item)
           /\ produced' = Append(produced, item)
    /\ unfinished_tasks' = unfinished_tasks + 1
    /\ UNCHANGED <<taken, songs>>
    /\ prod' = [pc |-> IF prod.i + 1 = Len(url_list) + max_concurrent_dl
                       THEN "done" ELSE "run",
                i |-> prod.i + 1]
    /\ UNCHANGED <<processes, max_concurrent_dl, artists, artist, mainpc, url_list,
                   lyrics_queue, dispatched, writer, workers, lyric_file,
                   pass_file, fetched>>
    /\ UNCHANGED phvars

\* get_song_lyrics reading the head of the queue without removing a URL
WorkerGet_peek(w) ==
    /\ workers[w].pc = "get"
    /\ input_queue # <<>>
    /\ input_queue' = IF Head(input_queue) = QUEUE_SENTINEL THEN Tail(input_queue)
                      ELSE input_queue
    /\ taken' = IF Head(input_queue) = QUEUE_SENTINEL THEN taken
                ELSE [taken EXCEPT ![UrlIndex(Head(input_queue))] = @ + 1]
    /\ UNCHANGED <<produced, songs>>
    /\ workers' = [workers EXCEPT ![w] =
                     IF Head(input_queue) = QUEUE_SENTINEL
                     THEN [pc |-> "sentinel", url |-> 0, raising |-> FALSE]
                     ELSE [pc |-> "fetch", url |-> Head(input_queue), raising |-> FALSE]]
    /\ UNCHANGED <<processes, max_concurrent_dl, artists, artist, mainpc, url_list,
                   unfinished_tasks, lyrics_queue, dispatched, prod, writer,
                   lyric_file, pass_file, fetched>>
    /\ UNCHANGED phvars

\* get_song_lyrics on a last-in first-out queue
WorkerGet_lifo(w) ==
    /\ workers[w].pc = "get"
    /\ input_queue # <<>>
    /\ LET item == input_queue[Len(input_queue)] IN
          /\ input_queue' = SubSeq(input_queue, 1, Len(input_queue) - 1)
          /\ taken' = IF item = QUEUE_SENTINEL THEN taken
                      ELSE [taken EXCEPT ![UrlIndex(item)] = @ + 1]
          /\ workers' = [workers EXCEPT ![w] =
                           IF item = QUEUE_SENTINEL
                           THEN [pc |-> "sentinel", url |-> 0, raising |-> FALSE]
                           ELSE [pc |-> "fetch", url |-> item, raising |-> FALSE]]
    /\ UNCHANGED <<produced, songs>>
    /\ UNCHANGED <<processes, max_concurrent_dl, artists, artist, mainpc, url_list,
                   unfinished_tasks, lyrics_queue, dispatched, prod, writer,
                   lyric_file, pass_file, fetched>>
    /\ UNCHANGED phvars

\* ---- get_song_lyrics, line 223: take the next item of the work queue
WorkerGet(w) ==
    /\ workers[w].pc = "get"
    /\ input_queue # <<>>
    /\ input_queue' = Tail(input_queue)
    /\ taken' = IF Head(input_queue) = QUEUE_SENTINEL THEN taken
                ELSE [taken EXCEPT ![UrlIndex(Head(input_queue))] = @ + 1]
    /\ UNCHANGED <<produced, songs>>
    /\ workers' = [workers EXCEPT ![w] =
                     IF Head(input_queue) = QUEUE_SENTINEL
                     THEN [pc |-> "sentinel", url |-> 0, raising |-> FALSE]
                     ELSE [pc |-> "fetch", url |-> Head(input_queue), raising |-> FALSE]]
    /\ UNCHANGED <<processes, max_concurrent_dl, artists, artist, mainpc, url_list,
                   unfinished_tasks, lyrics_queue, dispatched, prod, writer,
                   lyric_file, pass_file, fetched>>
    /\ UNCHANGED phvars

\* the pool process goes on with the next worker of the same chunk
NextOfChunk(ws, w) ==
    IF w < max_concurrent_dl /\ chunk_of(w + 1) = chunk_of(w)
    THEN [ws EXCEPT ![w + 1].pc = "get"] ELSE ws

\* get_song_lyrics without the break of line 228
WorkerSentinel_nobreak(w) ==
    /\ workers[w].pc = "sentinel"
    /\ unfinished_tasks' = unfinished_tasks - 1
    /\ lyrics_queue' = Append(lyrics_queue, Sentinel)
    /\ workers' = [workers EXCEPT ![w].pc = "get"]
    /\ UNCHANGED <<processes, max_concurrent_dl, artists, artist, mainpc, url_list,
                   input_queue, dispatched, prod, writer, lyric_file, pass_file,
                   fetched>>
    /\ UNCHANGED histvars
    /\ UNCHANGED phvars

\* ---- get_song_lyrics, lines 225-228: the sentinel is acknowledged and
\* forwarded to the result queue, the task returns
WorkerSentinel(w) ==
    /\ workers[w].pc = "sentinel"
    /\ unfinished_tasks' = unfinished_tasks - 1
    /\ lyrics_queue' = Append(lyrics_queue, Sentinel)
    /\ workers' = NextOfChunk([workers EXCEPT ![w].pc = "done"], w)
    /\ UNCHANGED <<processes, max_concurrent_dl, artists, artist, mainpc, url_list,
                   input_queue, dispatched, prod, writer, lyric_file, pass_file,
                   fetched>>
    /\ UNCHANGED histvars
    /\ UNCHANGED phvars

\* ---- get_song_lyrics, lines 235-246: the page holds a lyric block
WorkerFetchFound(w) ==
    /\ workers[w].pc = "fetch"
    /\ LET b == Page(workers[w].url) IN
          /\ lyrics_queue' = Append(lyrics_queue, Batch(workers[w].url, b))
          /\ fetched' = fetched \cup {[url |-> workers[w].url, outcome |-> "found",
                                       lines |-> b]}
    /\ workers' = [workers EXCEPT ![w].pc = "ack"]
    /\ UNCHANGED <<processes, max_concurrent_dl, artists, artist, mainpc, url_list,
                   input_queue, unfinished_tasks, dispatched, prod, writer,
                   lyric_file, pass_file>>
    /\ UNCHANGED histvars
    /\ UNCHANGED phvars

\* get_song_lyrics putting an empty batch where line 244 has "continue"
WorkerFetchNotFound_puts(w) ==
    /\ workers[w].pc = "fetch"
    /\ lyrics_queue' = Append(lyrics_queue, Batch(workers[w].url, <<>>))
    /\ fetched' = fetched \cup {[url |-> workers[w].url, outcome |-> "none",
                                 lines |-> <<>>]}
    /\ workers' = [workers EXCEPT ![w].pc = "ack"]
    /\ UNCHANGED <<processes, max_concurrent_dl, artists, artist, mainpc, url_list,
                   input_queue, unfinished_tasks, dispatched, prod, writer,
                   lyric_file, pass_file>>
    /\ UNCHANGED histvars
    /\ UNCHANGED phvars

\* ---- get_song_lyrics, lines 242-244: no lyric block, continue
WorkerFetchNotFound(w) ==
    /\ workers[w].pc = "fetch"
    /\ fetched' = fetched \cup {[url |-> workers[w].url, outcome |-> "none",
                                 lines |-> <<>>]}
    /\ workers' = [workers EXCEPT ![w].pc = "ack"]
    /\ UNCHANGED <<processes, max_concurrent_dl, artists, artist, mainpc, url_list,
                   input_queue, unfinished_tasks, lyrics_queue, dispatched, prod,
                   writer, lyric_file, pass_file>>
    /\ UNCHANGED histvars
    /\ UNCHANGED phvars

\* the exception leaves get_song_lyrics: the task fails, and mapstar runs
\* none of the chunk's remaining workers
Raise(ws, w) ==
    [v \in Workers |->
        IF v = w THEN [ws[v] EXCEPT !.pc = "raised"]
        ELSE IF v > w /\ chunk_of(v) = chunk_of(w) THEN [ws[v] EXCEPT !.pc = "skipped"]
        ELSE ws[v]]

\* get_song_lyrics with task_done() outside a finally clause: the raising
\* fetch leaves the function without acknowledging its item
WorkerFetchError_noack(w) ==
    /\ workers[w].pc = "fetch"
    /\ fetched' = fetched \cup {[url |-> workers[w].url, outcome |-> "error",
                                 lines |-> <<>>]}
    /\ workers' = Raise([workers EXCEPT ![w].raising = TRUE], w)
    /\ UNCHANGED <<processes, max_concurrent_dl, artists, artist, mainpc, url_list,
                   input_queue, unfinished_tasks, lyrics_queue, dispatched, prod,
                   writer, lyric_file, pass_file>>
    /\ UNCHANGED histvars
    /\ UNCHANGED phvars

\* ---- get_song_lyrics, lines 235-237: urlopen or decode raises; the try
\* statement has no except clause, so the exception is pending while the
\* finally clause runs
WorkerFetchError(w) ==
    /\ workers[w].pc = "fetch"
    /\ fetched' = fetched \cup {[url |-> workers[w].url, outcome |-> "error",
                                 lines |-> <<>>]}
    /\ workers' = [workers EXCEPT ![w].pc = "ack", ![w].raising = TRUE]
    /\ UNCHANGED <<processes, max_concurrent_dl, artists, artist, mainpc, url_list,
                   input_queue, unfinished_tasks, lyrics_queue, dispatched, prod,
                   writer, lyric_file, pass_file>>
    /\ UNCHANGED histvars
    /\ UNCHANGED phvars

\* ---- get_song_lyrics, lines 247-248: finally: input_queue.task_done(),
\* then back to the head of the loop, or out with the pending exception
WorkerTaskDone(w) ==
    /\ workers[w].pc = "ack"
    /\ unfinished_tasks' = unfinished_tasks - 1
    /\ workers' = IF workers[w].raising THEN Raise(workers, w)
                  ELSE [workers EXCEPT ![w].pc = "get"]
    /\ UNCHANGED <<processes, max_concurrent_dl, artists, artist, mainpc, url_list,
                   input_queue, lyrics_queue, dispatched, prod, writer, lyric_file,
                   pass_file, fetched>>
    /\ UNCHANGED histvars
    /\ UNCHANGED phvars

\* write_data without the test "if line" of line 200
write_data_keeps_empty(outfile, data) ==
    [exists |-> TRUE, lines |-> outfile.lines \o data]

Tagged(u, ls) == [i \in 1..Len(ls) |-> [url |-> u, text |-> ls[i]]]

\* write_data opening the file with mode "w"
write_data_truncates(outfile, data) ==
    [exists |-> TRUE, lines |-> SelectSeq(data, LAMBDA l : l.text # <<>>)]

\* write_data writing the lines from the last to the first
write_data_reversed(outfile, data) ==
    [exists |-> TRUE,
     lines |-> outfile.lines \o SelectSeq([i \in 1..Len(data) |-> data[Len(data) + 1 - i]],
                                          LAMBDA l : l.text # <<>>)]

\* ---- write_data, lines 198-201: open for append, write the non-empty lines
write_data(outfile, data) ==
    [exists |-> TRUE,
     lines |-> outfile.lines \o SelectSeq(data, LAMBDA l : l.text # <<>>)]

\* lyric_writer leaving its loop at the first sentinel
WriterGetSentinel_first ==
    /\ writer.pc = "run"
    /\ lyrics_queue # <<>>
    /\ Head(lyrics_queue).sentinel
    /\ lyrics_queue' = Tail(lyrics_queue)
    /\ writer' = [pc |-> "done", finished |-> writer.finished + 1]
    /\ UNCHANGED <<processes, max_concurrent_dl, artists, artist, mainpc, url_list,
                   input_queue, unfinished_tasks, dispatched, prod, workers,
                   lyric_file, pass_file, fetched>>
    /\ UNCHANGED histvars
    /\ UNCHANGED phvars

\* ---- lyric_writer, lines 207-212: a sentinel is counted, the loop ends
\* at the max_concurrent-th
WriterGetSentinel ==
    /\ writer.pc = "run"
    /\ lyrics_queue # <<>>
    /\ Head(lyrics_queue).sentinel
    /\ lyrics_queue' = Tail(lyrics_queue)
    /\ writer' = [pc |-> IF writer.finished + 1 = max_concurrent_dl
                         THEN "done" ELSE "run",
                  finished |-> writer.finished + 1]
    /\ UNCHANGED <<processes, max_concurrent_dl, artists, artist, mainpc, url_list,
                   input_queue, unfinished_tasks, dispatched, prod, workers,
                   lyric_file, pass_file, fetched>>
    /\ UNCHANGED histvars
    /\ UNCHANGED phvars

\* ---- lyric_writer, lines 207, 214-215: a batch is appended to the file
WriterGetBatch ==
    /\ writer.pc = "run"
    /\ lyrics_queue # <<>>
    /\ ~Head(lyrics_queue).sentinel
    /\ lyrics_queue' = Tail(lyrics_queue)
    /\ lyric_file' = write_data(lyric_file,
                        Tagged(Head(lyrics_queue).url, Head(lyrics_queue).lines))
    /\ UNCHANGED <<processes, max_concurrent_dl, artists, artist, mainpc, url_list,
                   input_queue, unfinished_tasks, dispatched, prod, writer, workers,
                   pass_file, fetched>>
    /\ UNCHANGED histvars
    /\ UNCHANGED phvars

\* ---- scrape_lyrics, line 284: pool.map returns once every chunk is over
MapDone == \A w \in Workers : workers[w].pc \in {"done", "raised", "skipped"}
MapFailed == \E w \in Workers : workers[w].pc = "raised"

MapReturn ==
    /\ mainpc = "map"
    /\ MapDone /\ ~MapFailed
    /\ mainpc' = "qjoin"
    /\ UNCHANGED <<processes, max_concurrent_dl, artists, artist, url_list,
                   input_queue, unfinished_tasks, lyrics_queue, dispatched, prod,
                   writer, workers, lyric_file, pass_file, fetched>>
    /\ UNCHANGED histvars
    /\ UNCHANGED phvars

Kill(task) == IF task.pc \in {"queued", "run"} THEN [task EXCEPT !.pc = "killed"] ELSE task

\* ---- scrape_lyrics, lines 278, 284: pool.map re-raises a worker's
\* exception, Pool.__exit__ terminates the pool processes, and the exception
\* leaves scrape_lyrics and main
MapRaise ==
    /\ mainpc = "map"
    /\ MapDone /\ MapFailed
    /\ mainpc' = "crashed"
    /\ prod' = Kill(prod)
    /\ writer' = Kill(writer)
    /\ UNCHANGED <<processes, max_concurrent_dl, artists, artist, url_list,
                   input_queue, unfinished_tasks, lyrics_queue, dispatched,
                   workers, lyric_file, pass_file, fetched>>
    /\ UNCHANGED histvars
    /\ UNCHANGED phvars

\* ---- scrape_lyrics, line 285: input_queue.join()
QueueJoin ==
    /\ mainpc = "qjoin"
    /\ unfinished_tasks = 0
    /\ mainpc' = "pooljoin"
    /\ UNCHANGED <<processes, max_concurrent_dl, artists, artist, url_list,
                   input_queue, unfinished_tasks, lyrics_queue, dispatched, prod,
                   writer, workers, lyric_file, pass_file, fetched>>
    /\ UNCHANGED histvars
    /\ UNCHANGED phvars

\* scrape_lyrics returning without pool.close() and pool.join()
PoolJoin_nowait ==
    /\ mainpc = "pooljoin"
    /\ artist' = artist + 1
    /\ mainpc' = LoopAt(artist + 1)
    /\ UNCHANGED <<processes, max_concurrent_dl, artists, url_list, input_queue,
                   unfinished_tasks, lyrics_queue, dispatched, prod, writer,
                   workers, lyric_file, pass_file, fetched>>
    /\ UNCHANGED histvars
    /\ UNCHANGED phvars

\* ---- scrape_lyrics, lines 286-287: pool.close(), pool.join() wait for the
\* producer and lyric_writer tasks; scrape_lyrics returns to main's loop
PoolJoin ==
    /\ mainpc = "pooljoin"
    /\ dispatched = n_tasks
    /\ busy = 0
    /\ artist' = artist + 1
    /\ mainpc' = LoopAt(artist + 1)
    /\ UNCHANGED <<processes, max_concurrent_dl, artists, url_list, input_queue,
                   unfinished_tasks, lyrics_queue, dispatched, prod, writer,
                   workers, lyric_file, pass_file, fetched>>
    /\ UNCHANGED histvars
    /\ UNCHANGED phvars

\* infile.readlines(): every line with its newline
readlines(f) == [i \in 1..Len(f.lines) |-> Append(f.lines[i].text, "\n")]

\* ---- main, lines 317-325: the raw file is read back, the phrases are
\* made and written to PASS_FILE
ReadBack ==
    /\ mainpc = "readback"
    /\ lyric_file.exists
    /\ \E a \in MinMax :
          LET raw_words == readlines(lyric_file)
              final_phrases == Flatten([i \in 1..Len(raw_words) |->
                                           make_phrases(raw_words[i], a)])
          IN  pass_file' = write_data(pass_file, Tagged(0, final_phrases))
    /\ mainpc' = "done"
    /\ UNCHANGED <<processes, max_concurrent_dl, artists, artist, url_list,
                   input_queue, unfinished_tasks, lyrics_queue, dispatched, prod,
                   writer, workers, lyric_file, fetched>>
    /\ UNCHANGED histvars
    /\ UNCHANGED phvars

\* ---- main, line 317: open(lyric_file) raises FileNotFoundError
ReadBackNoFile ==
    /\ mainpc = "readback"
    /\ ~lyric_file.exists
    /\ mainpc' = "crashed"
    /\ UNCHANGED <<processes, max_concurrent_dl, artists, artist, url_list,
                   input_queue, unfinished_tasks, lyrics_queue, dispatched, prod,
                   writer, workers, lyric_file, pass_file, fetched>>
    /\ UNCHANGED histvars
    /\ UNCHANGED phvars

Next ==
    \/ BuildUrlsEmpty
    \/ ScrapeLyrics
    \/ StartTask
    \/ ProducerPut
    \/ \E w \in Workers : WorkerGet(w)
    \/ \E w \in Workers : WorkerSentinel(w)
    \/ \E w \in Workers : WorkerFetchFound(w)
    \/ \E w \in Workers : WorkerFetchNotFound(w)
    \/ \E w \in Workers : WorkerFetchError(w)
    \/ \E w \in Workers : WorkerTaskDone(w)
    \/ WriterGetSentinel
    \/ WriterGetBatch
    \/ MapReturn
    \/ MapRaise
    \/ QueueJoin
    \/ PoolJoin
    \/ ReadBack
    \/ ReadBackNoFile

Spec == Init /\ [][Next]_vars

\* ======================================================= make_phrases alone
PhraseInit ==
    /\ processes = 1 /\ max_concurrent_dl = 1 /\ artists = 0 /\ artist = 1
    /\ mainpc = "none"
    /\ NoPipeline
    /\ lyric_file = NoFile /\ pass_file = NoFile /\ fetched = {} /\ songs = 0
    /\ line \in Strings(MaxLineLen)
    /\ args \in MinMax
    /\ final_lines = <<>>
    /\ phpc = "call"

MakePhrases ==
    /\ phpc = "call"
    /\ final_lines' = make_phrases(line, args)
    /\ phpc' = "returned"
    /\ UNCHANGED <<line, args>>
    /\ UNCHANGED pipevars

PhraseNext == MakePhrases

PhraseSpec == PhraseInit /\ [][PhraseNext]_vars

\* ================================================================== claims
InRun == mainpc \in {"map", "qjoin", "pooljoin"}
Found == {r \in fetched : r.outcome = "found"}
NonEmpty(ls) == SelectSeq(ls, LAMBDA l : l # <<>>)
LinesOf(u) == SelectSeq(lyric_file.lines, LAMBDA l : l.url = u)
InResultQueue(u) == \E i \in 1..Len(lyrics_queue) : lyrics_queue[i].url = u

RECURSIVE SumOver(_, _)
SumOver(S, n) ==
    IF S = {} THEN n
    ELSE LET r == CHOOSE x \in S : TRUE
         IN  SumOver(S \ {r}, n + Len(r.lines))
RECURSIVE SumNonEmpty(_, _)
SumNonEmpty(S, n) ==
    IF S = {} THEN n
    ELSE LET r == CHOOSE x \in S : TRUE
         IN  SumNonEmpty(S \ {r}, n + Len(NonEmpty(r.lines)))

\* C1: in every run of scrape_lyrics the writer receives max_concurrent_dl
\* sentinels and terminates: a run in progress can always take a step (no
\* deadlock of producer, workers and writer), and the writer is never ended
\* from outside before it counted its sentinels.
C1_RunNeverDeadlocks ==
    /\ InRun => ENABLED Next
    /\ writer.pc # "killed"

\* C2: a fetch that fails is skipped like a page without lyrics: the worker
\* that made it does not end by the exception, it loops on and the run is not
\* aborted.
C2_FetchFailureSkipped ==
    /\ \A w \in Workers : workers[w].pc # "raised"
    /\ (\E r \in fetched : r.outcome = "error") => mainpc # "crashed"

\* C3 (as claimed): when the writer has finished, the file holds as many
\* lines as the batches of the found URLs hold together.
C3_LinesEqualBatchLengths ==
    writer.pc = "done" => Len(lyric_file.lines) = SumOver(Found, 0)

\* C3 (amended): when the writer has finished, the file holds as many lines
\* as the batches of the found URLs hold non-empty lines.
C3_LinesEqualNonEmptyLines ==
    writer.pc = "done" => Len(lyric_file.lines) = SumNonEmpty(Found, 0)

C3_Witness ==
    /\ writer.pc = "done"
    /\ \E r \in Found : Len(NonEmpty(r.lines)) < Len(r.lines)
    /\ Cardinality(Found) >= 2

\* C4: no batch and no sentinel is lost: once the writer has ended, every
\* batch that a worker put on the result queue is in the file, in batch
\* order, and when the writer has counted all sentinels both queues are empty.
C4_NothingLost ==
    /\ writer.pc \in {"done", "killed"} =>
          \A r \in Found : LinesOf(r.url) = Tagged(r.url, NonEmpty(r.lines))
    /\ writer.pc = "done" =>
          /\ input_queue = <<>>
          /\ lyrics_queue = <<>>

\* C5: the writer leaves its loop only when it has counted one sentinel per
\* worker, and by then every worker has forwarded its sentinel and returned;
\* and once every worker has forwarded its sentinel the writer has left its
\* loop or is running with an item to take.
C5_WriterOnlyAfterAllWorkers ==
    /\ writer.pc = "done" =>
          /\ writer.finished = max_concurrent_dl
          /\ \A w \in Workers : workers[w].pc = "done"
    /\ (\A w \in Workers : workers[w].pc = "done") =>
          \/ writer.pc = "done"
          \/ writer.pc = "run" /\ lyrics_queue # <<>>

C5_Witness ==
    /\ writer.pc = "done"
    /\ max_concurrent_dl >= 2
    /\ mainpc = "map"

\* C6: for a URL whose page holds no lyrics nothing is put on the result
\* queue and nothing is written to the file, and the worker that fetched it
\* has not ended: it is back in its loop.
C6_NotFoundLeavesNoTrace ==
    \A r \in fetched : r.outcome = "none" =>
        /\ ~InResultQueue(r.url)
        /\ LinesOf(r.url) = <<>>
        /\ \A w \in Workers :
              (workers[w].url = r.url /\ workers[w].pc = "ack") =>
                  /\ ~workers[w].raising
                  /\ ENABLED WorkerTaskDone(w)

C6_Witness ==
    /\ writer.pc = "done"
    /\ \E r \in fetched : r.outcome = "none" /\ r.url = Url(artist, 1)
    /\ Found # {}

\* C7: main finds the raw-lyrics file in existence when it opens it for the
\* read-back, whatever the fetches gave, and does not end by an error there.
C7_RawFileExistsAtReadBack ==
    mainpc = "readback" => lyric_file.exists

\* C8: the max_concurrent_dl workers run concurrently with the producer and
\* the writer: a worker that has not started never has to wait for another
\* task to end, neither for a free pool process nor behind a worker of its
\* own chunk.
C8_WorkersNeverWaitForATask ==
    \A w \in Workers : workers[w].pc = "queued" =>
        /\ busy < processes
        /\ dispatched < 2 + chunk_of(w)

\* C9: scrape_lyrics has returned only when the producer has made all its
\* puts and producer, workers and writer have ended; so the next artist's
\* pipeline starts, and the read-back begins, with no unit of a pipeline live.
C9_ReturnsAfterAllJoined ==
    mainpc \in {"build", "readback", "done"} =>
        /\ prod.pc \in {"none", "done"}
        /\ prod.pc = "done" => prod.i = Len(url_list) + max_concurrent_dl
        /\ writer.pc \in {"none", "done"}
        /\ \A w \in Workers : workers[w].pc \in {"none", "done"}
        /\ unfinished_tasks = 0

C9_Witness ==
    /\ mainpc = "build"
    /\ artist = 2
    /\ writer.pc = "done"
    /\ max_concurrent_dl >= 2

\* make_phrases has returned for limits min <= max
Returned == phpc = "returned" /\ args.min <= args.max
HasSpace(s) == \E i \in 1..Len(s) : s[i] = " "

PhraseFile(phrases) == write_data(NoFile, Tagged(0, phrases))
Extract(f, a) ==
    LET raw_words == readlines(f)
    IN  Flatten([i \in 1..Len(raw_words) |-> make_phrases(raw_words[i], a)])

\* C11: phrase extraction is idempotent: the phrases make_phrases produced
\* from a line, written to a file and run through make_phrases again with the
\* same min and max (min <= max), give the same file.
C11_ExtractionIdempotent ==
    (phpc = "returned" /\ args.min <= args.max) =>
        PhraseFile(Extract(PhraseFile(final_lines), args)) = PhraseFile(final_lines)

\* C12: every URL of url_list is taken from the work queue at most once and
\* is in the hands of at most one worker, no URL has two fetch outcomes, and
\* when the run has finished (the writer counted its sentinels) every URL has
\* been taken once and fetched.
Holders(u) == {w \in Workers : workers[w].url = u /\ workers[w].pc \in {"fetch", "ack"}}
C12_EachUrlTakenOnce ==
    /\ \A k \in DOMAIN taken :
          /\ taken[k] <= 1
          /\ Cardinality(Holders(url_list[k])) <= taken[k]
          /\ Cardinality({r \in fetched : r.url = url_list[k]}) <= taken[k]
    /\ writer.pc = "done" =>
          \A k \in DOMAIN url_list :
              /\ taken[k] = 1
              /\ \E r \in fetched : r.url = url_list[k]

C12_Witness ==
    /\ writer.pc = "done"
    /\ max_concurrent_dl >= 2
    /\ Len(url_list) >= 2

\* C13: what the producer has put so far is always a prefix of url_list
\* followed by max_concurrent_dl sentinels, and when the producer has
\* returned it is all of it.
Planned == url_list \o [i \in 1..max_concurrent_dl |-> QUEUE_SENTINEL]
C13_ProducedUrlsThenSentinels ==
    /\ Len(produced) <= Len(Planned)
    /\ produced = SubSeq(Planned, 1, Len(produced))
    /\ prod.pc = "done" => produced = Planned

C13_Witness ==
    /\ prod.pc = "done"
    /\ max_concurrent_dl >= 2
    /\ Len(url_list) >= 2
    /\ \E w \in Workers : workers[w].pc = "fetch"

\* C14: the sentinels on the result queue and those the writer counted are
\* one for each worker that took a sentinel and returned, and a worker that
\* has put its sentinel takes and puts nothing more.
SentinelsIn(q) == Cardinality({i \in 1..Len(q) : q[i].sentinel})
C14_OneSentinelThenStop ==
    /\ SentinelsIn(lyrics_queue) + writer.finished
          = Cardinality({w \in Workers : workers[w].pc = "done"})
    /\ \A w \in Workers : workers[w].pc = "done" =>
          /\ ~ENABLED WorkerGet(w)
          /\ ~ENABLED WorkerFetchFound(w)
          /\ ~ENABLED WorkerSentinel(w)

C14_Witness ==
    /\ \E w \in Workers : workers[w].pc = "done"
    /\ \E w \in Workers : workers[w].pc = "sentinel"
    /\ \E i \in 1..Len(lyrics_queue) : ~lyrics_queue[i].sentinel

\* C15: the work queue never holds more than floor(1.5 * max_concurrent_dl)
\* items.
C15_WorkQueueBounded ==
    2 * Len(input_queue) <= 3 * max_concurrent_dl

C15_Witness ==
    /\ max_concurrent_dl >= 2
    /\ 2 * (Len(input_queue) + 1) > 3 * max_concurrent_dl
    /\ prod.pc = "run"

\* C16: the raw file only grows: in every step the file stays in existence
\* and its lines before the step are a prefix of its lines after it.
C16_RawFileAppendOnly ==
    [][/\ lyric_file.exists => lyric_file'.exists
       /\ Len(lyric_file.lines) <= Len(lyric_file'.lines)
       /\ lyric_file.lines = SubSeq(lyric_file'.lines, 1, Len(lyric_file.lines))]_vars

C16_Witness ==
    /\ \E i \in 1..Len(lyric_file.lines) : lyric_file.lines[i].url = Url(1, 1)
    /\ \E i \in 1..Len(lyric_file.lines) : lyric_file.lines[i].url = Url(2, 1)

\* C17: every item taken is acknowledged once: the count of unfinished tasks
\* is the number of items in the work queue plus the items workers hold
\* unacknowledged, never negative, and it is zero when pool.map has returned,
\* so that input_queue.join() returns.
Unacked == {w \in Workers : workers[w].pc \in {"sentinel", "fetch", "ack"}}
C17_TaskDoneOncePerItem ==
    /\ unfinished_tasks >= 0
    /\ unfinished_tasks = Len(input_queue) + Cardinality(Unacked)
    /\ mainpc = "qjoin" => unfinished_tasks = 0 /\ ENABLED QueueJoin

C17_Witness ==
    /\ mainpc = "qjoin"
    /\ \E r \in fetched : r.outcome = "none" /\ r.url = Url(artist, 1)
    /\ \E r \in fetched : r.outcome = "found" /\ r.url = Url(artist, 2)

\* C18: the lines of one batch are in the file next to each other and in
\* batch order, whatever other batches are in the file.
Positions(u) == {i \in 1..Len(lyric_file.lines) : lyric_file.lines[i].url = u}
C18_BatchLinesContiguous ==
    \A r \in Found :
        /\ \A i, j \in Positions(r.url) :
              \A k \in i..j : k \in Positions(r.url)
        /\ Len(LinesOf(r.url)) <= Len(NonEmpty(r.lines))
        /\ LinesOf(r.url)
              = SubSeq(Tagged(r.url, NonEmpty(r.lines)), 1, Len(LinesOf(r.url)))

C18_Witness ==
    /\ max_concurrent_dl >= 2
    /\ \E r \in Found :
          /\ Len(NonEmpty(r.lines)) >= 2
          /\ Len(LinesOf(r.url)) >= 2
          /\ r.url = Url(1, 2)
    /\ lyric_file.lines # <<>> /\ lyric_file.lines[1].url = Url(1, 1)
    /\ Len(LinesOf(Url(1, 1))) >= 2

\* C19: when a worker has taken a sentinel, every URL of url_list has been
\* put and taken: none is in the work queue and none is still to be put.
C19_SentinelsTakenAfterUrls ==
    (\E w \in Workers : workers[w].pc \in {"sentinel", "done"}) =>
        /\ \A k \in DOMAIN url_list : taken[k] >= 1
        /\ \A i \in 1..Len(input_queue) : input_queue[i] = QUEUE_SENTINEL
        /\ prod.i >= Len(url_list)

C19_Witness ==
    /\ \E w \in Workers : workers[w].pc = "sentinel"
    /\ \E w \in Workers : workers[w].pc = "queued"
    /\ Len(url_list) >= 2
    /\ writer.finished = 0 /\ lyrics_queue = <<>>

====
